---- MODULE Spec2Model ----
(***************************************************************************)
(* Model of timeleft.py: the CO2 trajectory recurrence                     *)
(* (model_co2_trajectory), the threshold scan                              *)
(* (calculate_years_until_toxic_breathing) and the presentation layer      *)
(* (display_results, plot_co2_trajectory, main).                           *)
(*                                                                         *)
(* Representation.  Python floats are represented in fixed point: a float  *)
(* x is the integer floor(x * ONE), except the concentration levels, which *)
(* are kept in LEVEL_UNIT-ths of a ppm so that 1002 records of the         *)
(* 1000-year run stay inside TLC's integers.  Python integers are          *)
(* unbounded; the only figure that leaves TLC's integers is 'seconds',     *)
(* which is kept as a two-limb number <<hi, lo>> = hi * LIMB + lo.         *)
(* Python lists are sequences; the code's index i is position i + 1.       *)
(* None is the empty sequence <<>> and a bound value v is <<v>>.           *)
(* datetime.datetime.now().year is an input: every read returns a year at  *)
(* or after the previous read (the calendar year can change between two    *)
(* reads).                                                                 *)
(***************************************************************************)
EXTENDS Integers, Sequences, FiniteSets, TLC

\* ------------------------------------------------------------------ bounds
MaxHorizon == 8        \* largest years_to_model of a direct call
MaxTicks == 1          \* how many times the calendar year may change in a run
StartYear == 2026      \* calendar year when the run starts

\* ------------------------------------------------- fixed-point arithmetic
K == 10^3                          \* half-limb of a fixed-point product
ONE == K * K                       \* the float 1.0
LEVEL_UNIT == 10^5                 \* one ppm of a concentration level
LIMB == 10^6                       \* base of the two-limb integers

\* floor(a * b / ONE), computed limb-wise so no intermediate product overflows
FMul(a, b) ==
  LET a1 == a \div K  a0 == a % K
      b1 == b \div K  b0 == b % K
  IN  a1 * b1 + ((a1 * b0 + a0 * b1 + ((a0 * b0) \div K)) \div K)

\* base^n in fixed point, by repeated squaring
RECURSIVE FPow(_, _)
FPow(base, n) ==
  IF n = 0 THEN ONE
  ELSE LET h == FPow(base, n \div 2)
           sq == FMul(h, h)
       IN  IF n % 2 = 1 THEN FMul(sq, base) ELSE sq

\* x * c for a Python int x and a small factor c, as <<hi, lo>>
BigMul(x, c) ==
  LET x1 == x \div LIMB  x0 == x % LIMB
      p0 == x0 * c
  IN  <<x1 * c + (p0 \div LIMB), p0 % LIMB>>

\* --------------------------------------------------- module-level constants
CURRENT_CO2_PPM == 420
TOXIC_BREATHING_CO2_PPM == 4200
TOTAL_ANNUAL_TREE_SEQUESTRATION_GT == 7600000
GT_CO2_TO_PPM == 129200
CURRENT_ANNUAL_EMISSIONS_GT == 36800000
ADDITIONAL_NATURAL_SINKS_GT == 10100000
TOTAL_NATURAL_SEQUESTRATION_GT ==
  TOTAL_ANNUAL_TREE_SEQUESTRATION_GT + ADDITIONAL_NATURAL_SINKS_GT

DEFAULT_ACCELERATION == 10000      \* acceleration_factor=0.01
ANALYZER_HORIZON == 1000           \* years_to_model=1000
EXP_STEP == 990050                 \* math.exp(-1/100)
DECAY == 999000                    \* 0.999
PLOT_WINDOW == 20

\* Values the two module attributes the claims vary may be bound to when a
\* function is called: the shipped value first, then test values.
EmissionsValues == {CURRENT_ANNUAL_EMISSIONS_GT, 17600000}
ToxicValues == {TOXIC_BREATHING_CO2_PPM, CURRENT_CO2_PPM, 10700}
AccelerationValues == {DEFAULT_ACCELERATION, 0, -50000}

ERROR_MESSAGE == "CO2 does not reach toxic levels within 1000 years in this model"

\* ------------------------------------------------------------------- state
VARIABLES
  globals,            \* module attributes that the run reads
  entry,              \* the function called: "main" or "model_co2_trajectory"
  pc,                 \* position of the run
  clock,              \* calendar year of the system clock at the last read
  years_to_model, acceleration_factor,       \* arguments of model_co2_trajectory
  range_start,        \* first operand of range(...) at line 44
  years, co2_levels, annual_emissions, i,    \* locals of model_co2_trajectory
  scan_i, years_until_toxic, toxic_year,     \* locals of the analyzer
  results,            \* the analyzer's return value
  console,            \* lines printed so far
  plot_i, toxic_index,                       \* locals of plot_co2_trajectory
  figure,             \* what was drawn: <<>> or <<[series_len, marker]>>
  files               \* files written

vars == <<globals, entry, pc, clock, years_to_model, acceleration_factor,
          range_start, years, co2_levels, annual_emissions, i,
          scan_i, years_until_toxic, toxic_year, results, console,
          plot_i, toxic_index, figure, files>>

modelVars == <<range_start, years, co2_levels, annual_emissions, i>>
analyzerVars == <<scan_i, years_until_toxic, toxic_year, results>>
plotVars == <<plot_i, toxic_index, figure, files>>
callVars == <<globals, entry, years_to_model, acceleration_factor>>

None == <<>>
NoResult == [pending |-> TRUE]
MaxYear == StartYear + MaxTicks

\* a printed line: the function that printed it and its text
Line(by, text) == [by |-> by, text |-> text]

\* list[i] with the code's 0-based index
At(list, idx) == list[idx + 1]

\* list[:n] for n >= 0
Prefix(list, n) == SubSeq(list, 1, IF n < Len(list) THEN n ELSE Len(list))

\* list(range(a, b))
Range(a, b) == [j \in 1..(IF b > a THEN b - a ELSE 0) |-> a + j - 1]

Init ==
  /\ globals \in [CURRENT_ANNUAL_EMISSIONS_GT : EmissionsValues,
                  TOXIC_BREATHING_CO2_PPM : ToxicValues]
  /\ entry \in {"main", "model_co2_trajectory"}
  /\ IF entry = "main"
       THEN /\ years_to_model = ANALYZER_HORIZON
            /\ acceleration_factor = DEFAULT_ACCELERATION
       ELSE /\ years_to_model \in 0..MaxHorizon
            /\ acceleration_factor \in AccelerationValues
  /\ pc = "start"
  /\ clock = StartYear
  /\ range_start = 0
  /\ years = <<>>
  /\ co2_levels = <<>>
  /\ annual_emissions = <<>>
  /\ i = 0
  /\ scan_i = 0
  /\ years_until_toxic = None
  /\ toxic_year = None
  /\ results = NoResult
  /\ console = <<>>
  /\ plot_i = 0
  /\ toxic_index = None
  /\ figure = <<>>
  /\ files = {}

\* ------------------------------------------------- model_co2_trajectory
\* a direct call of model_co2_trajectory(years_to_model, acceleration_factor)
ModelCall ==
  /\ pc = "start"
  /\ entry = "model_co2_trajectory"
  /\ pc' = "m_range_start"
  /\ UNCHANGED <<callVars, clock, modelVars, analyzerVars, console, plotVars>>

\* line 44, first operand: datetime.datetime.now().year
ModelRangeStart ==
  /\ pc = "m_range_start"
  /\ \E now \in clock..MaxYear :
       /\ clock' = now
       /\ range_start' = now
  /\ pc' = "m_range_stop"
  /\ UNCHANGED <<callVars, years, co2_levels, annual_emissions, i,
                 analyzerVars, console, plotVars>>

\* line 44, second operand and the list; lines 45-46
ModelRangeStop ==
  /\ pc = "m_range_stop"
  /\ \E now \in clock..MaxYear :
       /\ clock' = now
       /\ years' = Range(range_start, now + years_to_model + 1)
  /\ co2_levels' = <<CURRENT_CO2_PPM * LEVEL_UNIT>>
  /\ annual_emissions' = <<globals.CURRENT_ANNUAL_EMISSIONS_GT>>
  /\ i' = 1
  /\ pc' = "m_loop"
  /\ UNCHANGED <<callVars, range_start, analyzerVars, console, plotVars>>

\* line 54
GrowthRate(a, step) == FMul(a, FPow(EXP_STEP, step))

\* line 55
NextEmission(prev, a, step) == FMul(prev, ONE + GrowthRate(a, step))

\* lines 60-61
YearSequestration(step) ==
  FMul(TOTAL_NATURAL_SEQUESTRATION_GT, FPow(DECAY, step))

NetPpmIncreaseSwapped(emission, sequestration) ==
  FMul(sequestration, GT_CO2_TO_PPM) - FMul(emission, GT_CO2_TO_PPM)

\* lines 64-68
NetPpmIncrease(emission, sequestration) ==
  FMul(emission, GT_CO2_TO_PPM) - FMul(sequestration, GT_CO2_TO_PPM)

\* line 71; the level keeps LEVEL_UNIT-ths of a ppm
NewCo2Level(prev, net) == prev + (net \div (ONE \div LEVEL_UNIT))

\* lines 51-72, one iteration
ModelLoop ==
  /\ pc = "m_loop"
  /\ i < Len(years)
  /\ LET annual_emission ==
           NextEmission(At(annual_emissions, i - 1), acceleration_factor, i)
         net == NetPpmIncrease(annual_emission, YearSequestration(i))
     IN  /\ annual_emissions' = Append(annual_emissions, annual_emission)
         /\ co2_levels' = Append(co2_levels, NewCo2Level(At(co2_levels, i - 1), net))
  /\ i' = i + 1
  /\ UNCHANGED <<callVars, pc, clock, range_start, years,
                 analyzerVars, console, plotVars>>

ModelReturnPrinting ==
  /\ pc = "m_loop"
  /\ i >= Len(years)
  /\ pc' = IF entry = "main" THEN "scan" ELSE "done"
  /\ console' = Append(console, Line("model_co2_trajectory", "trajectory ready"))
  /\ UNCHANGED <<callVars, clock, modelVars, analyzerVars, plotVars>>

\* line 74
ModelReturn ==
  /\ pc = "m_loop"
  /\ i >= Len(years)
  /\ pc' = IF entry = "main" THEN "scan" ELSE "done"
  /\ UNCHANGED <<callVars, clock, modelVars, analyzerVars, console, plotVars>>

\* ---------------------------------- calculate_years_until_toxic_breathing
\* line 84: model_co2_trajectory(years_to_model=1000)
CalcCall ==
  /\ pc = "calc"
  /\ pc' = "m_range_start"
  /\ UNCHANGED <<callVars, clock, modelVars, analyzerVars, console, plotVars>>

CrossesStrict(level, threshold) == level > threshold * LEVEL_UNIT

\* line 93: co2_levels[i] >= TOXIC_BREATHING_CO2_PPM
Crosses(level, threshold) == level >= threshold * LEVEL_UNIT

\* lines 92-93, an iteration whose record is below the threshold
ScanStep ==
  /\ pc = "scan"
  /\ scan_i < Len(years)
  /\ ~Crosses(At(co2_levels, scan_i), globals.TOXIC_BREATHING_CO2_PPM)
  /\ scan_i' = scan_i + 1
  /\ UNCHANGED <<callVars, pc, clock, modelVars, years_until_toxic, toxic_year,
                 results, console, plotVars>>

\* lines 93-96, the iteration that finds a record at or above the threshold
ScanFound ==
  /\ pc = "scan"
  /\ scan_i < Len(years)
  /\ Crosses(At(co2_levels, scan_i), globals.TOXIC_BREATHING_CO2_PPM)
  /\ \E now \in clock..MaxYear :
       /\ clock' = now
       /\ years_until_toxic' = <<At(years, scan_i) - now>>
  /\ toxic_year' = <<At(years, scan_i)>>
  /\ pc' = "scan_end"
  /\ UNCHANGED <<callVars, modelVars, scan_i, results, console, plotVars>>

\* line 92, the range is exhausted
ScanExhausted ==
  /\ pc = "scan"
  /\ scan_i >= Len(years)
  /\ pc' = "scan_end"
  /\ UNCHANGED <<callVars, clock, modelVars, analyzerVars, console, plotVars>>

ErrorResultWithYears == [error |-> ERROR_MESSAGE, years |-> 0]

\* line 100
ErrorResult == [error |-> ERROR_MESSAGE]

\* lines 99-100
CalcNotFound ==
  /\ pc = "scan_end"
  /\ years_until_toxic = None
  /\ results' = ErrorResult
  /\ pc' = "display"
  /\ UNCHANGED <<callVars, clock, modelVars, scan_i, years_until_toxic,
                 toxic_year, console, plotVars>>

\* line 103
Months(y) == y * 12

DaysLeap(y) == y * 366

\* line 104
Days(y) == y * 365

\* line 105
Hours(d) == d * 24

\* line 106
Minutes(h) == h * 60

\* line 107
Seconds(m) == BigMul(m, 60)

\* lines 102-119; "model_results" is a reference to the dict whose lists are
\* the variables years, co2_levels and annual_emissions
CalcSuccess ==
  /\ pc = "scan_end"
  /\ years_until_toxic # None
  /\ \E now \in clock..MaxYear :
       /\ clock' = now
       /\ LET y == years_until_toxic[1]
              months == Months(y)
              days == Days(y)
              hours == Hours(days)
              minutes == Minutes(hours)
              seconds == Seconds(minutes)
          IN  results' = [current_year |-> now,
                          toxic_year |-> toxic_year[1],
                          years |-> y,
                          months |-> months,
                          days |-> days,
                          hours |-> hours,
                          minutes |-> minutes,
                          seconds |-> seconds,
                          model_results |-> "model_results"]
  /\ pc' = "display"
  /\ UNCHANGED <<callVars, modelVars, scan_i, years_until_toxic, toxic_year,
                 console, plotVars>>

\* ------------------------------------------------------- display_results
\* line 123 and line 152
HasError(r) == "error" \in DOMAIN r

\* lines 127-148, the report
ReportLines ==
  <<Line("display_results", "---- EARTH'S ATMOSPHERE & CO2 ESTIMATION ----"),
    Line("display_results", "Current CO2 level"),
    Line("display_results", "Toxic breathing CO2 level"),
    Line("display_results", "Current annual CO2 increase"),
    Line("display_results", "Current annual emissions"),
    Line("display_results", "Tree sequestration"),
    Line("display_results", "Total natural sequestration"),
    Line("display_results", "Net annual increase"),
    Line("display_results", "Current Year"),
    Line("display_results", "Estimated Year When Atmosphere Becomes Toxic for Breathing"),
    Line("display_results", "Time Left Until Earth's Atmosphere Becomes Toxic for Human Breathing:"),
    Line("display_results", "Years"),
    Line("display_results", "Months"),
    Line("display_results", "Days"),
    Line("display_results", "Hours"),
    Line("display_results", "Minutes"),
    Line("display_results", "Seconds"),
    Line("display_results", "NOTE: This is a simplified model based on current trends and assumptions."),
    Line("display_results", "Technological advances, policy changes, and natural feedback loops could significantly alter these projections.")>>

DisplayLinesNoReturn(r) ==
  IF HasError(r)
    THEN <<Line("display_results", r.error)>> \o ReportLines
    ELSE ReportLines

\* lines 121-148: what display_results(r) prints
DisplayLines(r) ==
  IF HasError(r)
    THEN <<Line("display_results", r.error)>>
    ELSE ReportLines

\* line 216
DisplayResults ==
  /\ pc = "display"
  /\ console' = console \o DisplayLines(results)
  /\ pc' = "plot"
  /\ UNCHANGED <<callVars, clock, modelVars, analyzerVars, plotVars>>

\* --------------------------------------------------- plot_co2_trajectory
\* lines 152-153
PlotSkip ==
  /\ pc = "plot"
  /\ HasError(results)
  /\ pc' = "done"
  /\ UNCHANGED <<callVars, clock, modelVars, analyzerVars, console, plotVars>>

\* lines 155-160
PlotEnter ==
  /\ pc = "plot"
  /\ ~HasError(results)
  /\ toxic_index' = None
  /\ plot_i' = 0
  /\ pc' = "plot_scan"
  /\ UNCHANGED <<callVars, clock, modelVars, analyzerVars, console, figure, files>>

PlotCrossesStrict(level, threshold) == level > threshold * LEVEL_UNIT

\* line 162
PlotCrosses(level, threshold) == level >= threshold * LEVEL_UNIT

\* lines 161-164, one iteration, and the exhausted range
PlotScan ==
  /\ pc = "plot_scan"
  /\ IF plot_i < Len(co2_levels)
       THEN IF PlotCrosses(At(co2_levels, plot_i), globals.TOXIC_BREATHING_CO2_PPM)
              THEN /\ toxic_index' = <<plot_i>>
                   /\ pc' = "plot_render"
                   /\ UNCHANGED plot_i
              ELSE /\ plot_i' = plot_i + 1
                   /\ UNCHANGED <<toxic_index, pc>>
       ELSE /\ pc' = "plot_render"
            /\ UNCHANGED <<toxic_index, plot_i>>
  /\ UNCHANGED <<callVars, clock, modelVars, analyzerVars, console, figure, files>>

\* lines 166-205: the series that is plotted, the vertical marker, savefig
PlotRender ==
  /\ pc = "plot_render"
  /\ LET full == toxic_index = None
         index == IF full THEN Len(years) - 1 ELSE toxic_index[1]
         plot_years == IF full THEN years ELSE Prefix(years, index + PLOT_WINDOW)
         plot_levels == IF full THEN co2_levels
                                ELSE Prefix(co2_levels, index + PLOT_WINDOW)
     IN  /\ toxic_index' = <<index>>
         /\ figure' = <<[years |-> Len(plot_years),
                         levels |-> Len(plot_levels),
                         full_horizon |-> full,
                         marker |-> IF index < Len(plot_years)
                                      THEN <<At(plot_years, index)>>
                                      ELSE None]>>
  /\ files' = files \cup {"co2_trajectory.png"}
  /\ pc' = "done"
  /\ UNCHANGED <<callVars, clock, modelVars, analyzerVars, console, plot_i>>

\* ------------------------------------------------------------------ main
\* lines 209-210
BannerLines ==
  <<Line("main", "Calculating time until Earth's atmosphere becomes toxic for human breathing..."),
    Line("main", "Based on current CO2 levels being 10% of toxic breathing threshold.")>>

\* lines 207-213: the banner, then the call of the analyzer
MainStart ==
  /\ pc = "start"
  /\ entry = "main"
  /\ console' = console \o BannerLines
  /\ pc' = "calc"
  /\ UNCHANGED <<callVars, clock, modelVars, analyzerVars, plotVars>>

Next ==
  \/ ModelCall
  \/ ModelRangeStart
  \/ ModelRangeStop
  \/ ModelLoop
  \/ ModelReturn
  \/ MainStart
  \/ CalcCall
  \/ ScanStep
  \/ ScanFound
  \/ ScanExhausted
  \/ CalcNotFound
  \/ CalcSuccess
  \/ DisplayResults
  \/ PlotSkip
  \/ PlotEnter
  \/ PlotScan
  \/ PlotRender

Spec == Init /\ [][Next]_vars

TypeOK ==
  /\ pc \in {"start", "calc", "m_range_start", "m_range_stop", "m_loop",
             "scan", "scan_end", "display", "plot", "plot_scan",
             "plot_render", "done"}
  /\ Len(co2_levels) = Len(annual_emissions)
  /\ Len(co2_levels) <= Len(years) \/ years = <<>>

\* ---------------------------------------------------------------- claims
Shipped ==
  globals = [CURRENT_ANNUAL_EMISSIONS_GT |-> CURRENT_ANNUAL_EMISSIONS_GT,
             TOXIC_BREATHING_CO2_PPM |-> TOXIC_BREATHING_CO2_PPM]

\* model_co2_trajectory has returned its dictionary
ModelReturned ==
  pc \in {"scan", "scan_end", "display", "plot", "plot_scan", "plot_render", "done"}

\* calculate_years_until_toxic_breathing has returned
CalcReturned ==
  entry = "main" /\ pc \in {"display", "plot", "plot_scan", "plot_render", "done"}

Success == CalcReturned /\ ~HasError(results)
NotFound == CalcReturned /\ HasError(results)

Threshold == globals.TOXIC_BREATHING_CO2_PPM * LEVEL_UNIT

Min(a, b) == IF a < b THEN a ELSE b

\* C1: for every horizon N >= 0 and acceleration factor, the returned
\* trajectory has exactly N+1 records: 'years', 'co2_levels' and
\* 'annual_emissions' all have length N+1, years[0] is the calendar year of
\* the call and the years are consecutive.
C1_RecordCount ==
  ModelReturned =>
    /\ Len(years) = years_to_model + 1
    /\ Len(co2_levels) = years_to_model + 1
    /\ Len(annual_emissions) = years_to_model + 1
    /\ At(years, 0) = range_start
    /\ \A j \in 0..(years_to_model - 1) : At(years, j + 1) = At(years, j) + 1

\* C2: a success result reports the first crossing: with k the index the
\* scan stopped at, toxic_year = years[k], co2_levels[k] >= threshold
\* (equality counts) and co2_levels[j] < threshold for every j < k.
C2_FirstCrossing ==
  Success =>
    /\ scan_i < Len(years)
    /\ results.toxic_year = At(years, scan_i)
    /\ At(co2_levels, scan_i) >= Threshold
    /\ \A j \in 0..(scan_i - 1) : At(co2_levels, j) < Threshold

C2_Witness ==
  /\ Success
  /\ pc = "done"
  /\ scan_i > 0
  /\ At(co2_levels, scan_i - 1) < Threshold

\* C3: the analyzer returns not-found exactly when no record reaches the
\* threshold; the not-found result has the single key 'error' (no years,
\* months, days, hours, minutes, seconds, toxic_year), a success result has
\* no 'error' key and has every figure.
C3_NotFoundIff ==
  CalcReturned =>
    /\ HasError(results) <=>
         (\A j \in 0..(Len(co2_levels) - 1) : At(co2_levels, j) < Threshold)
    /\ HasError(results) => DOMAIN results = {"error"}
    /\ ~HasError(results) =>
         {"current_year", "toxic_year", "years", "months", "days", "hours",
          "minutes", "seconds"} \subseteq DOMAIN results

C3_Witness ==
  /\ NotFound
  /\ pc = "done"
  /\ Len(co2_levels) > ANALYZER_HORIZON
  /\ years_until_toxic = None

\* C4: for every success result the reported years equals
\* toxic_year - current_year of the same result, and with the shipped
\* constants the crossing year is after the trajectory's first year and at
\* most 1000 years after it.
C4_ElapsedYears ==
  Success =>
    /\ results.years = results.toxic_year - results.current_year
    /\ Shipped =>
         /\ results.toxic_year > At(years, 0)
         /\ results.toxic_year <= At(years, 0) + ANALYZER_HORIZON

\* C5: every unit figure of a success result derives from the one integer
\* year delta: months = years*12, days = years*365, hours = days*24 =
\* years*8760, minutes = hours*60 = years*525600, seconds = minutes*60 =
\* years*31536000.
C5_UnitConsistency ==
  Success =>
    LET y == results.years IN
    /\ results.months = y * 12
    /\ results.days = y * 365
    /\ results.hours = results.days * 24
    /\ results.hours = y * 8760
    /\ results.minutes = results.hours * 60
    /\ results.minutes = y * 525600
    /\ results.seconds = BigMul(results.minutes, 60)
    /\ results.seconds = BigMul(y * 31536, 1000)

\* a success whose seconds figure needs more than 32 bits
C5_Witness ==
  /\ Success
  /\ results.years > 400
  /\ results.seconds[1] > 10000

\* C6 as stated: with acceleration_factor = 0 and initial emissions below
\* total natural sequestration the levels are non-increasing at every step
\* of the horizon.
C6_NonIncreasingWholeHorizon ==
  (/\ ModelReturned
   /\ acceleration_factor = 0
   /\ globals.CURRENT_ANNUAL_EMISSIONS_GT < TOTAL_NATURAL_SEQUESTRATION_GT)
  => \A j \in 1..(Len(co2_levels) - 1) :
       At(co2_levels, j) <= At(co2_levels, j - 1)

\* C6 amended: with acceleration_factor = 0 the emissions stay at their
\* initial value, and the level does not increase at any step i at which
\* that value does not exceed the decayed sequestration
\* TOTAL_NATURAL_SEQUESTRATION_GT * 0.999^i.
C6_NonIncreasingWhileSinkOutpaces ==
  (/\ ModelReturned
   /\ acceleration_factor = 0
   /\ globals.CURRENT_ANNUAL_EMISSIONS_GT < TOTAL_NATURAL_SEQUESTRATION_GT)
  => \A j \in 1..(Len(co2_levels) - 1) :
       /\ At(annual_emissions, j) = globals.CURRENT_ANNUAL_EMISSIONS_GT
       /\ globals.CURRENT_ANNUAL_EMISSIONS_GT <= YearSequestration(j)
            => At(co2_levels, j) <= At(co2_levels, j - 1)

\* a returned flat-emissions trajectory with a falling step followed, once
\* the sink has decayed below the emissions, by a rising one
C6_Witness ==
  /\ ModelReturned
  /\ acceleration_factor = 0
  /\ globals.CURRENT_ANNUAL_EMISSIONS_GT < TOTAL_NATURAL_SEQUESTRATION_GT
  /\ Len(co2_levels) > 2
  /\ At(co2_levels, 1) < At(co2_levels, 0)
  /\ At(co2_levels, Len(co2_levels) - 1) > At(co2_levels, Len(co2_levels) - 2)

\* C7: record 0 of every returned trajectory is the starting concentration
\* and the starting emissions, and for horizon 0 the trajectory is exactly
\* that one record.
C7_StartingRecord ==
  ModelReturned =>
    /\ At(co2_levels, 0) = CURRENT_CO2_PPM * LEVEL_UNIT
    /\ At(annual_emissions, 0) = globals.CURRENT_ANNUAL_EMISSIONS_GT
    /\ years_to_model = 0 =>
         /\ Len(years) = 1
         /\ Len(co2_levels) = 1
         /\ Len(annual_emissions) = 1

\* a step that prints, draws or writes a file
IOStep == console' # console \/ figure' # figure \/ files' # files

ReportPrinted ==
  \E n \in 1..Len(console) : console[n].by = "display_results"

\* C8 as stated: in a run of main every I/O event happens after the
\* analyzer has returned, and the console report precedes the chart write.
C8_NoIOBeforeModel ==
  [][(entry = "main" /\ IOStep) =>
       /\ CalcReturned
       /\ files' # files => ReportPrinted]_vars

\* C8 amended: main prints its two banner lines before it calls the
\* analyzer; every other I/O event happens after the analyzer has returned
\* (none while the trajectory is generated or scanned), and the console
\* report precedes the chart write.
C8_OnlyBannerBeforeModel ==
  [][IOStep =>
       /\ entry = "main"
       /\ \/ CalcReturned
          \/ /\ pc = "start"
             /\ console = <<>>
             /\ console' = BannerLines
             /\ figure' = figure
             /\ files' = files
       /\ files' # files => ReportPrinted]_vars

C8_Witness ==
  /\ pc = "done"
  /\ entry = "main"
  /\ files = {"co2_trajectory.png"}
  /\ Len(console) > Len(BannerLines)

NumericTexts ==
  {"Current Year", "Estimated Year When Atmosphere Becomes Toxic for Breathing",
   "Years", "Months", "Days", "Hours", "Minutes", "Seconds"}

PrintedBy(by) == SelectSeq(console, LAMBDA l : l.by = by)

\* C9: on not-found display_results prints only the fixed message and
\* plot_co2_trajectory returns without drawing or writing the chart; on
\* success the full report is printed and the chart is written.
C9_NotFoundHandled ==
  (entry = "main" /\ pc \in {"plot", "plot_scan", "plot_render", "done"}) =>
    /\ HasError(results) =>
         /\ PrintedBy("display_results") = <<Line("display_results", ERROR_MESSAGE)>>
         /\ \A n \in 1..Len(console) : console[n].text \notin NumericTexts
         /\ figure = <<>>
         /\ files = {}
         /\ pc \in {"plot", "done"}
    /\ ~HasError(results) =>
         /\ Len(PrintedBy("display_results")) = 19
         /\ \A t \in NumericTexts :
              \E n \in 1..Len(console) : console[n].text = t
         /\ \A n \in 1..Len(console) : console[n].text # ERROR_MESSAGE
         /\ pc = "done" => (files = {"co2_trajectory.png"} /\ figure # <<>>)

C9_Witness ==
  /\ entry = "main"
  /\ pc = "done"
  /\ HasError(results)
  /\ Len(console) = Len(BannerLines) + 1

\* C10: when a chart is rendered for a success result with crossing index
\* k, the plot's own scan finds k, the plotted series is the first
\* min(k+20, number of records) records and contains record k, the marker
\* is at years[k] = toxic_year, and the full-horizon branch is not taken.
C10_PlotAgreesWithAnalyzer ==
  (pc = "done" /\ figure # <<>>) =>
    /\ Success
    /\ toxic_index = <<scan_i>>
    /\ figure[1].years = Min(scan_i + PLOT_WINDOW, Len(years))
    /\ figure[1].levels = Min(scan_i + PLOT_WINDOW, Len(co2_levels))
    /\ scan_i < figure[1].years
    /\ figure[1].marker = <<At(years, scan_i)>>
    /\ figure[1].marker = <<results.toxic_year>>
    /\ ~figure[1].full_horizon

\* a chart whose window is cut by the end of the trajectory
C10_Witness ==
  /\ pc = "done"
  /\ figure # <<>>
  /\ scan_i > 0
  /\ scan_i + PLOT_WINDOW > Len(years)
  /\ figure[1].years = Len(years)
====
